---- MODULE Spec2Model ----
(***************************************************************************)
(* Model of the ChiefOfStaff task server (supabase/functions/server/       *)
(* index.tsx) and of the client date utilities (src/utils/dateUtils.ts):   *)
(* date bucketing, the task handlers (update, delete, archive, snooze,     *)
(* reorder) and the key-value store they read and write.                   *)
(*                                                                         *)
(* Encoding of JavaScript values:                                          *)
(*   a YYYY-MM-DD string is the triple <<y, m, d>>; null is <<>>; the      *)
(*   empty string is <<0>>; undefined (a key missing from a JSON body) is  *)
(*   <<0, 0>>.  A value is truthy exactly when it is a triple.             *)
(*   A Date at local midnight is its day number, day 0 = 2026-01-01.       *)
(*   An ISO timestamp is the clock reading that produced it; 0 is null.    *)
(***************************************************************************)
EXTENDS Integers, Sequences, FiniteSets, TLC

VARIABLES kv, now, clientDate, last, bToday, bDue, bSection, bValid, calls, tasks

vars == <<kv, now, clientDate, last, bToday, bDue, bSection, bValid, calls, tasks>>

NULL == <<>>
EMPTY == <<0>>
UNDEF == <<0, 0>>

Truthy(v) == Len(v) = 3

(***************************************************************************)
(* Calendar arithmetic of the JavaScript Date object.                      *)
(***************************************************************************)
IsLeap(y) == (y % 4 = 0 /\ y % 100 # 0) \/ y % 400 = 0

DaysInMonth(y, m) ==
  IF m = 2 THEN (IF IsLeap(y) THEN 29 ELSE 28)
  ELSE IF m \in {4, 6, 9, 11} THEN 30 ELSE 31

RECURSIVE DaysBeforeMonth(_, _)
DaysBeforeMonth(y, m) ==
  IF m <= 1 THEN 0 ELSE DaysBeforeMonth(y, m - 1) + DaysInMonth(y, m - 1)

DaysInYear(y) == IF IsLeap(y) THEN 366 ELSE 365

RECURSIVE DaysBeforeYear(_)
DaysBeforeYear(y) ==
  IF y = 2026 THEN 0
  ELSE IF y > 2026 THEN DaysBeforeYear(y - 1) + DaysInYear(y - 1)
  ELSE DaysBeforeYear(y + 1) - DaysInYear(y)

\* new Date(year, month - 1, day) with setHours(0, 0, 0, 0): a day of the
\* month past the end of the month rolls over into the following month.
parseDateString(s) == DaysBeforeYear(s[1]) + DaysBeforeMonth(s[1], s[2]) + s[3] - 1

RECURSIVE CivilFrom(_, _, _)
CivilFrom(y, m, r) ==
  IF r < 0
    THEN (IF m = 1 THEN CivilFrom(y - 1, 12, r + 31)
          ELSE CivilFrom(y, m - 1, r + DaysInMonth(y, m - 1)))
  ELSE IF r < DaysInMonth(y, m) THEN <<y, m, r + 1>>
  ELSE IF m = 12 THEN CivilFrom(y + 1, 1, r - 31)
  ELSE CivilFrom(y, m + 1, r - DaysInMonth(y, m))

\* getFullYear / getMonth + 1 / getDate, joined as YYYY-MM-DD
formatDateLocal(n) == CivilFrom(2026, 1, n)

\* Date.prototype.getDay: 0 = Sunday .. 6 = Saturday; 2026-01-01 is a Thursday
getDay(n) == (n + 4) % 7

(***************************************************************************)
(* Date bucketing: the client's getDateSection and the server's copy of    *)
(* the same rules, validateDateInSection.                                  *)
(***************************************************************************)
DateSections == {"today", "this-week", "next-week", "after-next-week", "longer-term"}

\* The section identifiers a reorder request may carry (type DateSection).
Sections == DateSections \cup {"personal-focus", "to-read"}

\* getDateSection with the comparison of the first rule made strict
getDateSection_strictToday(dueDate, today) ==
  IF ~Truthy(dueDate) THEN "longer-term"
  ELSE
    LET due == parseDateString(dueDate)
        daysUntilSaturday == IF getDay(today) = 6 THEN 7 ELSE 6 - getDay(today)
        nextSaturday == today + daysUntilSaturday
        daysUntilSunday == IF getDay(today) = 0 THEN 7 ELSE 7 - getDay(today)
        nextSunday == today + daysUntilSunday
        saturdayAfterNextSunday == nextSunday + 6
    IN  IF due < today THEN "today"
        ELSE IF due > today /\ due <= nextSaturday THEN "this-week"
        ELSE IF due > nextSaturday /\ due <= saturdayAfterNextSunday THEN "next-week"
        ELSE "after-next-week"

\* getDateSection(dueDate); today is the value getToday() returns
getDateSection(dueDate, today) ==
  IF ~Truthy(dueDate) THEN "longer-term"
  ELSE
    LET due == parseDateString(dueDate)
        daysUntilSaturday == IF getDay(today) = 6 THEN 7 ELSE 6 - getDay(today)
        nextSaturday == today + daysUntilSaturday
        daysUntilSunday == IF getDay(today) = 0 THEN 7 ELSE 7 - getDay(today)
        nextSunday == today + daysUntilSunday
        saturdayAfterNextSunday == nextSunday + 6
    IN  IF due <= today THEN "today"
        ELSE IF due > today /\ due <= nextSaturday THEN "this-week"
        ELSE IF due > nextSaturday /\ due <= saturdayAfterNextSunday THEN "next-week"
        ELSE "after-next-week"

\* validateDateInSection with the this-week bound made exclusive
validateDateInSection_strictSaturday(dateStr, section, today) ==
  LET date == parseDateString(dateStr)
      daysUntilSaturday == IF getDay(today) = 6 THEN 7 ELSE 6 - getDay(today)
      nextSaturday == today + daysUntilSaturday
      daysUntilSunday == IF getDay(today) = 0 THEN 7 ELSE 7 - getDay(today)
      nextSunday == today + daysUntilSunday
      saturdayAfterNextSunday == nextSunday + 6
  IN  CASE section = "today" -> date <= today
        [] section = "this-week" -> date > today /\ date < nextSaturday
        [] section = "next-week" -> date > nextSaturday /\ date <= saturdayAfterNextSunday
        [] section = "after-next-week" -> date > saturdayAfterNextSunday
        [] OTHER -> FALSE

\* validateDateInSection with this-week open towards the past
validateDateInSection_noLowerBound(dateStr, section, today) ==
  LET date == parseDateString(dateStr)
      daysUntilSaturday == IF getDay(today) = 6 THEN 7 ELSE 6 - getDay(today)
      nextSaturday == today + daysUntilSaturday
      daysUntilSunday == IF getDay(today) = 0 THEN 7 ELSE 7 - getDay(today)
      nextSunday == today + daysUntilSunday
      saturdayAfterNextSunday == nextSunday + 6
  IN  CASE section = "today" -> date <= today
        [] section = "this-week" -> date <= nextSaturday
        [] section = "next-week" -> date > nextSaturday /\ date <= saturdayAfterNextSunday
        [] section = "after-next-week" -> date > saturdayAfterNextSunday
        [] OTHER -> FALSE

\* validateDateInSection(dateStr, section); today is the parsed clientToday
validateDateInSection(dateStr, section, today) ==
  LET date == parseDateString(dateStr)
      daysUntilSaturday == IF getDay(today) = 6 THEN 7 ELSE 6 - getDay(today)
      nextSaturday == today + daysUntilSaturday
      daysUntilSunday == IF getDay(today) = 0 THEN 7 ELSE 7 - getDay(today)
      nextSunday == today + daysUntilSunday
      saturdayAfterNextSunday == nextSunday + 6
  IN  CASE section = "today" -> date <= today
        [] section = "this-week" -> date > today /\ date <= nextSaturday
        [] section = "next-week" -> date > nextSaturday /\ date <= saturdayAfterNextSunday
        [] section = "after-next-week" -> date > saturdayAfterNextSunday
        [] OTHER -> FALSE

(***************************************************************************)
(* The key-value store and the task handlers of the server.                *)
(* kv maps the ids of the stored task records (keys task:<id>) to the      *)
(* records; kv.get of a key outside DOMAIN kv returns null.                *)
(***************************************************************************)
NoId == ""

\* Fixed-point grid of order_rank: a rank r is stored as r * RankUnit.
RankUnit == 4

\* the sum of the two ranks, not halved
midpoint_notHalved(a, b) == a + b

\* (a + b) / 2 on the grid, a tie rounded to the even neighbour
midpoint(a, b) ==
  LET s == a + b
      lo == (s - 1) \div 2
  IN  IF s % 2 = 0 THEN s \div 2
      ELSE IF lo % 2 = 0 THEN lo ELSE lo + 1

\* GET /tasks: the ids of the tasks in the response
getTasks(store) == DOMAIN store

\* GET /tasks/archived: the ids of the tasks in the response
getArchivedTasks(store) == {id \in DOMAIN store : store[id].archived_at # 0}

\* api.ts fetchTasks: the response of GET /tasks with the deleted tasks
\* filtered out
fetchTasks(store) == {id \in getTasks(store) : store[id].deleted_at = 0}

\* api.ts fetchArchivedTasks: the response of GET /tasks/archived as it is
fetchArchivedTasks(store) == getArchivedTasks(store)

\* body.due_date || null
normalizeDueDate(d) == IF Truthy(d) THEN d ELSE NULL

\* POST /tasks: the record the create handler stores
createTask(body, clock) ==
  [ status         |-> "open",
    group          |-> IF body.group = "" THEN "personal" ELSE body.group,
    task_type      |-> IF body.task_type = "" THEN "regular" ELSE body.task_type,
    due_date       |-> normalizeDueDate(body.due_date),
    is_longer_term |-> ~Truthy(normalizeDueDate(body.due_date)),
    order_rank     |-> clock * RankUnit,
    completed_at   |-> 0,
    archived_at    |-> 0,
    deleted_at     |-> 0,
    created_at     |-> clock,
    updated_at     |-> clock ]

create(store, id, body, clock) ==
  [ status |-> 200,
    store  |-> [k \in DOMAIN store \cup {id} |->
                  IF k = id THEN createTask(body, clock) ELSE store[k]] ]

\* update without the recomputation of is_longer_term
update_keepsFlag(store, id, body, clock) ==
  IF id \notin DOMAIN store THEN [status |-> 404, store |-> store]
  ELSE
    LET existingTask == store[id]
        spread ==
          [existingTask EXCEPT
             !.task_type = IF existingTask.task_type = "" THEN "regular"
                           ELSE existingTask.task_type,
             !.due_date = IF body.due_date # UNDEF THEN body.due_date ELSE @,
             !.is_longer_term = IF body.is_longer_term # "undefined"
                                THEN body.is_longer_term = "true" ELSE @,
             !.status = IF body.status # "undefined" THEN body.status ELSE @,
             !.updated_at = clock]
        dated ==
          IF body.due_date # UNDEF
            THEN [spread EXCEPT !.due_date = normalizeDueDate(body.due_date)]
            ELSE spread
        updatedTask ==
          IF body.status = "done" THEN [dated EXCEPT !.completed_at = clock]
          ELSE IF body.status = "open" THEN [dated EXCEPT !.completed_at = 0]
          ELSE dated
    IN  [status |-> 200, store |-> [store EXCEPT ![id] = updatedTask]]

\* update that stamps completed_at for done and never clears it
update_neverClears(store, id, body, clock) ==
  IF id \notin DOMAIN store THEN [status |-> 404, store |-> store]
  ELSE
    LET existingTask == store[id]
        spread ==
          [existingTask EXCEPT
             !.task_type = IF existingTask.task_type = "" THEN "regular"
                           ELSE existingTask.task_type,
             !.due_date = IF body.due_date # UNDEF THEN body.due_date ELSE @,
             !.is_longer_term = IF body.is_longer_term # "undefined"
                                THEN body.is_longer_term = "true" ELSE @,
             !.status = IF body.status # "undefined" THEN body.status ELSE @,
             !.updated_at = clock]
        dated ==
          IF body.due_date # UNDEF
            THEN [spread EXCEPT
                    !.due_date = normalizeDueDate(body.due_date),
                    !.is_longer_term = ~Truthy(normalizeDueDate(body.due_date))]
            ELSE spread
        updatedTask ==
          IF body.status = "done" THEN [dated EXCEPT !.completed_at = clock]
          ELSE dated
    IN  [status |-> 200, store |-> [store EXCEPT ![id] = updatedTask]]

\* PUT /tasks/:id
update(store, id, body, clock) ==
  IF id \notin DOMAIN store THEN [status |-> 404, store |-> store]
  ELSE
    LET existingTask == store[id]
        spread ==
          [existingTask EXCEPT
             !.task_type = IF existingTask.task_type = "" THEN "regular"
                           ELSE existingTask.task_type,
             !.due_date = IF body.due_date # UNDEF THEN body.due_date ELSE @,
             !.is_longer_term = IF body.is_longer_term # "undefined"
                                THEN body.is_longer_term = "true" ELSE @,
             !.status = IF body.status # "undefined" THEN body.status ELSE @,
             !.updated_at = clock]
        dated ==
          IF body.due_date # UNDEF
            THEN [spread EXCEPT
                    !.due_date = normalizeDueDate(body.due_date),
                    !.is_longer_term = ~Truthy(normalizeDueDate(body.due_date))]
            ELSE spread
        updatedTask ==
          IF body.status = "done" THEN [dated EXCEPT !.completed_at = clock]
          ELSE IF body.status = "open" THEN [dated EXCEPT !.completed_at = 0]
          ELSE dated
    IN  [status |-> 200, store |-> [store EXCEPT ![id] = updatedTask]]

\* delete removing the record from the store
delete_hard(store, id, clock) ==
  IF id \notin DOMAIN store THEN [status |-> 404, store |-> store]
  ELSE [status |-> 200, store |-> [k \in DOMAIN store \ {id} |-> store[k]]]

\* DELETE /tasks/:id
delete(store, id, clock) ==
  IF id \notin DOMAIN store THEN [status |-> 404, store |-> store]
  ELSE
    LET deletedTask == [store[id] EXCEPT !.deleted_at = clock, !.updated_at = clock]
    IN  [status |-> 200, store |-> [store EXCEPT ![id] = deletedTask]]

\* POST /tasks/:id/archive
archive(store, id, clock) ==
  IF id \notin DOMAIN store THEN [status |-> 404, store |-> store]
  ELSE
    LET archivedTask == [store[id] EXCEPT !.archived_at = clock, !.updated_at = clock]
    IN  [status |-> 200, store |-> [store EXCEPT ![id] = archivedTask]]

\* snooze with the clientToday validation ahead of the existence check
snooze_validatesFirst(store, id, body, clock) ==
  IF ~Truthy(body.clientToday) THEN [status |-> 400, store |-> store]
  ELSE IF id \notin DOMAIN store THEN [status |-> 404, store |-> store]
  ELSE
    LET existingTask == store[id]
        today == parseDateString(body.clientToday)
        currentDueDate == IF Truthy(existingTask.due_date)
                          THEN parseDateString(existingTask.due_date) ELSE today
        newDueDate == (IF today >= currentDueDate THEN today ELSE currentDueDate) + 1
        updatedTask == [existingTask EXCEPT
                          !.due_date = formatDateLocal(newDueDate),
                          !.is_longer_term = FALSE,
                          !.updated_at = clock]
    IN  [status |-> 200, store |-> [store EXCEPT ![id] = updatedTask]]

\* snooze counting from the stored due date alone
snooze_fromDueDate(store, id, body, clock) ==
  IF id \notin DOMAIN store THEN [status |-> 404, store |-> store]
  ELSE IF ~Truthy(body.clientToday) THEN [status |-> 400, store |-> store]
  ELSE
    LET existingTask == store[id]
        today == parseDateString(body.clientToday)
        currentDueDate == IF Truthy(existingTask.due_date)
                          THEN parseDateString(existingTask.due_date) ELSE today
        newDueDate == currentDueDate + 1
        updatedTask == [existingTask EXCEPT
                          !.due_date = formatDateLocal(newDueDate),
                          !.is_longer_term = FALSE,
                          !.updated_at = clock]
    IN  [status |-> 200, store |-> [store EXCEPT ![id] = updatedTask]]

\* snooze to the day after clientToday whatever the stored due date
snooze_toTomorrow(store, id, body, clock) ==
  IF id \notin DOMAIN store THEN [status |-> 404, store |-> store]
  ELSE IF ~Truthy(body.clientToday) THEN [status |-> 400, store |-> store]
  ELSE
    LET existingTask == store[id]
        today == parseDateString(body.clientToday)
        newDueDate == today + 1
        updatedTask == [existingTask EXCEPT
                          !.due_date = formatDateLocal(newDueDate),
                          !.is_longer_term = FALSE,
                          !.updated_at = clock]
    IN  [status |-> 200, store |-> [store EXCEPT ![id] = updatedTask]]

\* snooze taking the day of the server's clock for today
snooze_serverToday(store, id, body, clock) ==
  IF id \notin DOMAIN store THEN [status |-> 404, store |-> store]
  ELSE IF ~Truthy(body.clientToday) THEN [status |-> 400, store |-> store]
  ELSE
    LET existingTask == store[id]
        today == clock
        currentDueDate == IF Truthy(existingTask.due_date)
                          THEN parseDateString(existingTask.due_date) ELSE today
        newDueDate == (IF today >= currentDueDate THEN today ELSE currentDueDate) + 1
        updatedTask == [existingTask EXCEPT
                          !.due_date = formatDateLocal(newDueDate),
                          !.is_longer_term = FALSE,
                          !.updated_at = clock]
    IN  [status |-> 200, store |-> [store EXCEPT ![id] = updatedTask]]

\* POST /tasks/:id/snooze
snooze(store, id, body, clock) ==
  IF id \notin DOMAIN store THEN [status |-> 404, store |-> store]
  ELSE IF ~Truthy(body.clientToday) THEN [status |-> 400, store |-> store]
  ELSE
    LET existingTask == store[id]
        today == parseDateString(body.clientToday)
        currentDueDate == IF Truthy(existingTask.due_date)
                          THEN parseDateString(existingTask.due_date) ELSE today
        newDueDate == (IF today >= currentDueDate THEN today ELSE currentDueDate) + 1
        updatedTask == [existingTask EXCEPT
                          !.due_date = formatDateLocal(newDueDate),
                          !.is_longer_term = FALSE,
                          !.updated_at = clock]
    IN  [status |-> 200, store |-> [store EXCEPT ![id] = updatedTask]]

\* Date helpers of the reorder handler; today is the parsed clientToday.
getTodayDate(today) == formatDateLocal(today)

getTomorrowDate(today) == formatDateLocal(today + 1)

getNextUpcomingSunday(today) ==
  LET daysUntilSunday == IF getDay(today) = 0 THEN 7 ELSE 7 - getDay(today)
  IN  today + daysUntilSunday

getNextUpcomingSundayString(today) == formatDateLocal(getNextUpcomingSunday(today))

\* getDayAfterSaturdayAfterNextSunday stopping at the Saturday
getDayAfterSaturdayAfterNextSunday_saturday(today) ==
  LET nextSunday == getNextUpcomingSunday(today)
      saturdayAfter == nextSunday + 6
  IN  formatDateLocal(saturdayAfter)

getDayAfterSaturdayAfterNextSunday(today) ==
  LET nextSunday == getNextUpcomingSunday(today)
      saturdayAfter == nextSunday + 6
      dayAfter == saturdayAfter + 1
  IN  formatDateLocal(dayAfter)

\* reorderDueDate without the personal-focus branch
reorderDueDate_noPersonalFocus(store, existingTask, body, today) ==
  LET tryInherit == /\ body.beforeTaskId # NoId
                    /\ body.targetSection # "today"
                    /\ body.targetSection # "longer-term"
      inheritedDate ==
        IF /\ tryInherit
           /\ body.beforeTaskId \in DOMAIN store
           /\ Truthy(store[body.beforeTaskId].due_date)
           /\ validateDateInSection(store[body.beforeTaskId].due_date,
                                    body.targetSection, today)
          THEN store[body.beforeTaskId].due_date
          ELSE NULL
  IN  IF Truthy(inheritedDate) THEN inheritedDate
      ELSE CASE body.targetSection = "today" -> getTodayDate(today)
             [] body.targetSection = "this-week" -> getTomorrowDate(today)
             [] body.targetSection = "next-week" -> getNextUpcomingSundayString(today)
             [] body.targetSection = "after-next-week" ->
                  getDayAfterSaturdayAfterNextSunday(today)
             [] body.targetSection = "longer-term" -> NULL
             [] OTHER -> NULL

\* reorderDueDate with the section defaults counted from the task's own
\* due date when it has one
reorderDueDate_fromTaskDate(store, existingTask, body, today) ==
  IF body.targetSection = "personal-focus" THEN existingTask.due_date
  ELSE
    LET base == IF Truthy(existingTask.due_date)
                THEN parseDateString(existingTask.due_date) ELSE today
        tryInherit == /\ body.beforeTaskId # NoId
                      /\ body.targetSection # "today"
                      /\ body.targetSection # "longer-term"
        inheritedDate ==
          IF /\ tryInherit
             /\ body.beforeTaskId \in DOMAIN store
             /\ Truthy(store[body.beforeTaskId].due_date)
             /\ validateDateInSection(store[body.beforeTaskId].due_date,
                                      body.targetSection, today)
            THEN store[body.beforeTaskId].due_date
            ELSE NULL
    IN  IF Truthy(inheritedDate) THEN inheritedDate
        ELSE CASE body.targetSection = "today" -> getTodayDate(today)
               [] body.targetSection = "this-week" -> getTomorrowDate(base)
               [] body.targetSection = "next-week" -> getNextUpcomingSundayString(base)
               [] body.targetSection = "after-next-week" ->
                    getDayAfterSaturdayAfterNextSunday(base)
               [] body.targetSection = "longer-term" -> NULL
               [] OTHER -> NULL

\* Date assignment of the reorder handler: the new due_date
reorderDueDate(store, existingTask, body, today) ==
  IF body.targetSection = "personal-focus" THEN existingTask.due_date
  ELSE
    LET tryInherit == /\ body.beforeTaskId # NoId
                      /\ body.targetSection # "today"
                      /\ body.targetSection # "longer-term"
        inheritedDate ==
          IF /\ tryInherit
             /\ body.beforeTaskId \in DOMAIN store
             /\ Truthy(store[body.beforeTaskId].due_date)
             /\ validateDateInSection(store[body.beforeTaskId].due_date,
                                      body.targetSection, today)
            THEN store[body.beforeTaskId].due_date
            ELSE NULL
    IN  IF Truthy(inheritedDate) THEN inheritedDate
        ELSE CASE body.targetSection = "today" -> getTodayDate(today)
               [] body.targetSection = "this-week" -> getTomorrowDate(today)
               [] body.targetSection = "next-week" -> getNextUpcomingSundayString(today)
               [] body.targetSection = "after-next-week" ->
                    getDayAfterSaturdayAfterNextSunday(today)
               [] body.targetSection = "longer-term" -> NULL
               [] OTHER -> NULL

\* rank calculation without the fallbacks of the two-neighbor branch
reorderRank_bothOrNothing(store, body, clock) ==
  LET hasBefore == body.beforeTaskId \in DOMAIN store
      hasAfter == body.afterTaskId \in DOMAIN store
  IN  IF body.beforeTaskId # NoId /\ body.afterTaskId # NoId
        THEN IF hasBefore /\ hasAfter
               THEN midpoint(store[body.beforeTaskId].order_rank,
                             store[body.afterTaskId].order_rank)
             ELSE clock * RankUnit
      ELSE IF body.beforeTaskId # NoId
        THEN IF hasBefore THEN store[body.beforeTaskId].order_rank + RankUnit
             ELSE clock * RankUnit
      ELSE IF body.afterTaskId # NoId
        THEN IF hasAfter THEN store[body.afterTaskId].order_rank - RankUnit
             ELSE clock * RankUnit
      ELSE clock * RankUnit

\* Order rank calculation of the reorder handler; clock is Date.now()
reorderRank(store, body, clock) ==
  LET hasBefore == body.beforeTaskId \in DOMAIN store
      hasAfter == body.afterTaskId \in DOMAIN store
  IN  IF body.beforeTaskId # NoId /\ body.afterTaskId # NoId
        THEN IF hasBefore /\ hasAfter
               THEN midpoint(store[body.beforeTaskId].order_rank,
                             store[body.afterTaskId].order_rank)
             ELSE IF hasBefore THEN store[body.beforeTaskId].order_rank + RankUnit
             ELSE IF hasAfter THEN store[body.afterTaskId].order_rank - RankUnit
             ELSE clock * RankUnit
      ELSE IF body.beforeTaskId # NoId
        THEN IF hasBefore THEN store[body.beforeTaskId].order_rank + RankUnit
             ELSE clock * RankUnit
      ELSE IF body.afterTaskId # NoId
        THEN IF hasAfter THEN store[body.afterTaskId].order_rank - RankUnit
             ELSE clock * RankUnit
      ELSE clock * RankUnit

\* reorder validating clientToday only where the date assignment uses it
reorder_lateValidation(store, id, body, clock) ==
  IF id \notin DOMAIN store THEN [status |-> 404, store |-> store]
  ELSE IF body.targetSection # "personal-focus" /\ ~Truthy(body.clientToday)
    THEN [status |-> 400, store |-> store]
  ELSE
    LET existingTask == store[id]
        today == parseDateString(body.clientToday)
        newDueDate == reorderDueDate(store, existingTask, body, today)
        newOrderRank == reorderRank(store, body, clock)
        updatedTask == [existingTask EXCEPT
                          !.due_date = newDueDate,
                          !.is_longer_term = (newDueDate = NULL),
                          !.order_rank = newOrderRank,
                          !.updated_at = clock]
    IN  [status |-> 200, store |-> [store EXCEPT ![id] = updatedTask]]

\* POST /tasks/:id/reorder
reorder(store, id, body, clock) ==
  IF id \notin DOMAIN store THEN [status |-> 404, store |-> store]
  ELSE IF ~Truthy(body.clientToday) THEN [status |-> 400, store |-> store]
  ELSE
    LET existingTask == store[id]
        today == parseDateString(body.clientToday)
        newDueDate == reorderDueDate(store, existingTask, body, today)
        newOrderRank == reorderRank(store, body, clock)
        updatedTask == [existingTask EXCEPT
                          !.due_date = newDueDate,
                          !.is_longer_term = (newDueDate = NULL),
                          !.order_rank = newOrderRank,
                          !.updated_at = clock]
    IN  [status |-> 200, store |-> [store EXCEPT ![id] = updatedTask]]

(***************************************************************************)
(* The server as a state machine: one action per request.                  *)
(***************************************************************************)
TaskIds == {"t1", "t2", "t3"}
MissingId == "t0"
SpareId == "t4"

\* Number of requests served after the initial state
MaxOps == 1

\* Number of consecutive client dates, starting on Sunday 2026-03-08
ClientDaySpan == 7

FirstClientDay == parseDateString(<<2026, 3, 8>>)
ClientDays == FirstClientDay .. (FirstClientDay + ClientDaySpan - 1)

\* Clock reading of the initial state: one tick for each create and for each
\* of the two later requests
Now0 == Cardinality(TaskIds) + 3

OldDate == <<2026, 1, 1>>
NeighborDates ==
  {<<2026, 3, 9>>, <<2026, 3, 14>>, <<2026, 3, 15>>, <<2026, 3, 21>>, <<2026, 2, 50>>}

NoUpdate == [due_date |-> UNDEF, is_longer_term |-> "undefined", status |-> "undefined"]

T1Variants == {<<NULL, "none">>, <<OldDate, "none">>, <<OldDate, "flag">>, <<OldDate, "delete">>}
T2Variants == {<<d, "none">> : d \in NeighborDates \cup {NULL}} \cup {<<<<2026, 3, 21>>, "delete">>}

\* History of the task record: created, then possibly updated or deleted
prepared(store, id, prep, clock) ==
  IF prep = "flag"
    THEN update(store, id, [NoUpdate EXCEPT !.is_longer_term = "true"], clock).store
  ELSE IF prep = "delete" THEN delete(store, id, clock).store
  ELSE store

InitStore(v1, v2) ==
  LET c1 == create(<<>>, "t1", [due_date |-> v1[1], group |-> "work", task_type |-> ""], 1).store
      c2 == create(c1, "t2", [due_date |-> v2[1], group |-> "work", task_type |-> ""], 2).store
      c3 == create(c2, "t3", [due_date |-> NULL, group |-> "work", task_type |-> ""], 3).store
  IN  prepared(prepared(c3, "t1", v1[2], 4), "t2", v2[2], 5)

NoLast == [op |-> "none", id |-> NoId, status |-> 0, pre |-> <<>>, body |-> <<>>]

Init ==
  /\ clientDate \in ClientDays
  /\ \E v1 \in T1Variants, v2 \in T2Variants : kv = InitStore(v1, v2)
  /\ now = Now0
  /\ last = NoLast
  /\ bToday = 0 /\ bDue = NULL /\ bSection = "none" /\ bValid = {}
  /\ calls = <<>> /\ tasks = <<>>

\* clientToday as api.ts sends it, or a request without it
ClientTodays == {formatDateLocal(clientDate), UNDEF}

\* Reorder requests: every section and neighbour choice for the stored task
\* t1, with and without clientToday; for an id that is not stored, every
\* section without neighbours.
ReorderRequests ==
  ({"t1"} \X [targetSection : Sections, beforeTaskId : {NoId, "t2", MissingId},
              afterTaskId : {NoId, "t3", MissingId},
              clientToday : {formatDateLocal(clientDate)}])
  \cup
  ({"t1"} \X [targetSection : Sections, beforeTaskId : {NoId},
              afterTaskId : {NoId}, clientToday : {UNDEF}])
  \cup
  ({MissingId} \X [targetSection : Sections, beforeTaskId : {NoId},
                   afterTaskId : {NoId}, clientToday : ClientTodays])

UpdateRequests ==
  ({"t1"} \X [due_date : {UNDEF, NULL, EMPTY, <<2026, 3, 12>>},
              is_longer_term : {"undefined", "true", "false"},
              status : {"undefined", "open", "done"}])
  \cup
  ({MissingId} \X [due_date : {UNDEF, NULL}, is_longer_term : {"undefined"},
                   status : {"undefined", "done"}])

CreateBodies ==
  [due_date : {EMPTY, <<2026, 3, 12>>}, group : {""}, task_type : {""}]

Serve(op, id, body, result) ==
  /\ now < Now0 + MaxOps
  /\ kv' = result.store
  /\ now' = now + 1
  /\ last' = [op |-> op, id |-> id, status |-> result.status, pre |-> kv, body |-> body]
  /\ UNCHANGED <<clientDate, bToday, bDue, bSection, bValid, calls, tasks>>

Create ==
  \E body \in CreateBodies :
    /\ SpareId \notin DOMAIN kv
    /\ Serve("create", SpareId, body, create(kv, SpareId, body, now))

Update ==
  \E r \in UpdateRequests :
    Serve("update", r[1], r[2], update(kv, r[1], r[2], now))

Delete ==
  \E id \in {"t1", MissingId} :
    Serve("delete", id, <<>>, delete(kv, id, now))

Archive ==
  \E id \in {"t1", MissingId} :
    Serve("archive", id, <<>>, archive(kv, id, now))

Snooze ==
  \E id \in {"t1", "t2", MissingId}, ct \in ClientTodays :
    Serve("snooze", id, [clientToday |-> ct], snooze(kv, id, [clientToday |-> ct], now))

Reorder ==
  \E r \in ReorderRequests :
    Serve("reorder", r[1], r[2], reorder(kv, r[1], r[2], now))

Next == Create \/ Update \/ Delete \/ Archive \/ Snooze \/ Reorder

Spec == Init /\ [][Next]_vars

(***************************************************************************)
(* Date bucketing on its own: the inputs are drawn in the initial state    *)
(* and the two bucketing functions are applied to them.                    *)
(***************************************************************************)
\* Number of consecutive reference dates, starting on Sunday 2026-02-22
BucketDaySpan == 14

\* Due dates range from BucketBack days before the first reference date to
\* BucketAhead days after it
BucketBack == 2
BucketAhead == 36

FirstBucketDay == parseDateString(<<2026, 2, 22>>)
BucketDays == FirstBucketDay .. (FirstBucketDay + BucketDaySpan - 1)
BucketDueDates ==
  {formatDateLocal(n) : n \in (FirstBucketDay - BucketBack) .. (FirstBucketDay + BucketAhead)}
  \cup {<<2026, 2, 30>>, <<2026, 2, 50>>}

InitBucket ==
  /\ bToday \in BucketDays
  /\ bDue \in BucketDueDates \cup {NULL, EMPTY}
  /\ bSection = "none"
  /\ bValid = {}
  /\ calls = <<>> /\ tasks = <<>>
  /\ kv = <<>> /\ now = 0 /\ clientDate = 0 /\ last = NoLast

\* The client buckets a task: getToday() returns bToday
Bucket ==
  /\ bSection = "none"
  /\ bSection' = getDateSection(bDue, bToday)
  /\ UNCHANGED <<bToday, bDue, bValid, kv, now, clientDate, last, calls, tasks>>

\* The server validates a neighbour's date against every section
Validate ==
  /\ Truthy(bDue)
  /\ bValid = {}
  /\ bValid' = {sec \in Sections : validateDateInSection(bDue, sec, bToday)}
  /\ UNCHANGED <<bToday, bDue, bSection, kv, now, clientDate, last, calls, tasks>>

NextBucket == Bucket \/ Validate

SpecBucket == InitBucket /\ [][NextBucket]_vars

(***************************************************************************)
(* Properties of date bucketing (specification SpecBucket).                *)
(***************************************************************************)
\* Weekdays by reference to known dates: 2026-03-14 is a Saturday and
\* 2026-03-15 a Sunday.
IsSaturday(n) == (n - parseDateString(<<2026, 3, 14>>)) % 7 = 0
IsSunday(n) == (n - parseDateString(<<2026, 3, 15>>)) % 7 = 0

\* The first Saturday / Sunday strictly after today
FirstSaturdayAfter(today) == CHOOSE d \in (today + 1) .. (today + 7) : IsSaturday(d)
FirstSundayAfter(today) == CHOOSE d \in (today + 1) .. (today + 7) : IsSunday(d)

\* The bucketing algorithm as the specification states it
BucketOf(dueDate, today) ==
  IF dueDate = NULL \/ dueDate = EMPTY THEN "longer-term"
  ELSE IF parseDateString(dueDate) <= today THEN "today"
  ELSE IF parseDateString(dueDate) <= FirstSaturdayAfter(today) THEN "this-week"
  ELSE IF parseDateString(dueDate) <= FirstSundayAfter(today) + 6 THEN "next-week"
  ELSE "after-next-week"

\* C4: for every due date and every reference date, getDateSection returns
\* the section the specified algorithm gives: null -> longer-term, a date on
\* or before today -> today, otherwise this-week, next-week or
\* after-next-week by comparison with the first Saturday strictly after today
\* and with the sixth day after the first Sunday strictly after today.
C4_BucketIsSpecified ==
  bSection # "none" =>
    /\ bSection \in DateSections
    /\ bSection = BucketOf(bDue, bToday)

\* C4 witness: today is a Saturday and a task due 7 days later is bucketed
\* into this-week (the next Saturday is 7 days out, not 0).
C4_Witness ==
  /\ IsSaturday(bToday)
  /\ Truthy(bDue)
  /\ parseDateString(bDue) = bToday + 7
  /\ bSection = "this-week"

\* C5: for every reference date, the first Saturday strictly after today is
\* bucketed into this-week and the day after that Saturday into next-week,
\* by getDateSection and by validateDateInSection alike.
C5_SaturdayBoundary ==
  /\ (bSection # "none" /\ Truthy(bDue)
        /\ parseDateString(bDue) = FirstSaturdayAfter(bToday))
       => bSection = "this-week"
  /\ (bSection # "none" /\ Truthy(bDue)
        /\ parseDateString(bDue) = FirstSaturdayAfter(bToday) + 1)
       => bSection = "next-week"
  /\ (bValid # {} /\ parseDateString(bDue) = FirstSaturdayAfter(bToday))
       => bValid = {"this-week"}
  /\ (bValid # {} /\ parseDateString(bDue) = FirstSaturdayAfter(bToday) + 1)
       => bValid = {"next-week"}

\* C6: for every reference date, a due date equal to the sixth day after the
\* first Sunday strictly after today is bucketed into next-week and into no
\* other section, by getDateSection and by validateDateInSection alike.
C6_SaturdayAfterNextSunday ==
  /\ (bSection # "none" /\ Truthy(bDue)
        /\ parseDateString(bDue) = FirstSundayAfter(bToday) + 6)
       => bSection = "next-week"
  /\ (bValid # {} /\ parseDateString(bDue) = FirstSundayAfter(bToday) + 6)
       => bValid = {"next-week"}

(***************************************************************************)
(* Properties of the handlers (specification Spec).  last records the      *)
(* request just served: its operation, task id, body, the response status  *)
(* and the store as it was before the request.                             *)
(***************************************************************************)
Served(op) == last.op = op /\ last.status = 200

LastToday == parseDateString(last.body.clientToday)

AddDays(dateStr, n) == formatDateLocal(parseDateString(dateStr) + n)

\* The before-neighbor of the request is stored with a due date that date
\* bucketing, against the request's clientToday, places in the target section
\* (the target being neither today nor longer-term).
NeighborDateInTarget ==
  /\ last.body.beforeTaskId # NoId
  /\ last.body.targetSection \notin {"today", "longer-term"}
  /\ last.body.beforeTaskId \in DOMAIN last.pre
  /\ Truthy(last.pre[last.body.beforeTaskId].due_date)
  /\ getDateSection(last.pre[last.body.beforeTaskId].due_date, LastToday)
       = last.body.targetSection

\* The section default of the specification
SectionDefault(section, clientToday) ==
  CASE section = "today" -> clientToday
    [] section = "this-week" -> AddDays(clientToday, 1)
    [] section = "next-week" ->
         formatDateLocal(FirstSundayAfter(parseDateString(clientToday)))
    [] section = "after-next-week" ->
         formatDateLocal(FirstSundayAfter(parseDateString(clientToday)) + 7)
    [] section = "longer-term" -> NULL

\* C1: after a reorder into today, this-week, next-week, after-next-week or
\* longer-term in which no due date is inherited from the before-neighbor,
\* the task's due date is the section default: clientToday, clientToday + 1
\* day, the first Sunday strictly after clientToday, that Sunday + 7 days,
\* and null respectively.
C1_SectionDefault ==
  (/\ Served("reorder")
   /\ last.body.targetSection \in DateSections
   /\ ~NeighborDateInTarget)
  => kv[last.id].due_date = SectionDefault(last.body.targetSection, last.body.clientToday)

\* C1 witness: a reorder into after-next-week next to a neighbor whose date
\* lies in another section has given the task the Sunday after next.
C1_Witness ==
  /\ Served("reorder")
  /\ last.body.targetSection = "after-next-week"
  /\ last.body.beforeTaskId = "t2"
  /\ Truthy(last.pre["t2"].due_date)
  /\ ~NeighborDateInTarget
  /\ kv[last.id].due_date # last.pre[last.id].due_date
  /\ IsSunday(parseDateString(kv[last.id].due_date))

\* C2: after a reorder with a before-neighbor whose due date buckets into the
\* target section (not today, longer-term or personal-focus), the moved
\* task's due date is the neighbor's due date itself.
C2_InheritsNeighborDate ==
  (/\ Served("reorder")
   /\ last.body.targetSection # "personal-focus"
   /\ NeighborDateInTarget)
  => kv[last.id].due_date = last.pre[last.body.beforeTaskId].due_date

\* C2 witness: the neighbor's date was inherited where the section default is
\* a different date.
C2_Witness ==
  /\ Served("reorder")
  /\ last.body.targetSection = "this-week"
  /\ NeighborDateInTarget
  /\ kv[last.id].due_date = last.pre[last.body.beforeTaskId].due_date
  /\ kv[last.id].due_date # SectionDefault("this-week", last.body.clientToday)

\* C3: after a successful reorder, snooze or update that changed the stored
\* due date, is_longer_term equals (due_date is null).
C3_LongerTermFlag ==
  (/\ last.op \in {"reorder", "snooze", "update"}
   /\ last.status = 200
   /\ kv[last.id].due_date # last.pre[last.id].due_date)
  => kv[last.id].is_longer_term = (kv[last.id].due_date = NULL)

\* C3 witness: an update whose body sets a due date together with
\* is_longer_term = true has stored the date with the flag false.
C3_Witness ==
  /\ Served("update")
  /\ Truthy(last.body.due_date)
  /\ last.body.is_longer_term = "true"
  /\ kv[last.id].due_date # last.pre[last.id].due_date
  /\ kv[last.id].is_longer_term = FALSE

C8_DeletedIsNotFound ==
  (/\ last.op \in {"reorder", "snooze"}
   /\ Truthy(last.body.clientToday)
   /\ last.id \in DOMAIN last.pre
   /\ last.pre[last.id].deleted_at # 0)
  => /\ last.status = 404
     /\ kv = last.pre

\* C9: a reorder (any target section) or snooze of a stored task without
\* clientToday is answered with a validation error and writes nothing.
C9_MissingClientToday ==
  (/\ last.op \in {"reorder", "snooze"}
   /\ last.id \in DOMAIN last.pre
   /\ ~Truthy(last.body.clientToday))
  => /\ last.status = 400
     /\ kv = last.pre

\* C9 witness: a reorder into personal-focus without clientToday was rejected.
C9_Witness ==
  /\ last.op = "reorder"
  /\ last.id \in DOMAIN last.pre
  /\ last.body.targetSection = "personal-focus"
  /\ ~Truthy(last.body.clientToday)
  /\ last.status = 400

\* C10: a reorder or snooze of an id that is not in the store is answered
\* NotFound and writes nothing: no record is created and none changes.
C10_MissingTask ==
  (/\ last.op \in {"reorder", "snooze"}
   /\ last.id \notin DOMAIN last.pre)
  => /\ last.status = 404
     /\ kv = last.pre

\* C10 witness: a snooze of an unknown id without clientToday was answered
\* NotFound.
C10_Witness ==
  /\ last.op = "snooze"
  /\ last.id \notin DOMAIN last.pre
  /\ ~Truthy(last.body.clientToday)
  /\ last.status = 404
  /\ last.id \notin DOMAIN kv

(***************************************************************************)
(* Sequences of requests: a few requests on one store, served one after    *)
(* the other, so that a request meets what earlier requests have written.  *)
(***************************************************************************)
\* Number of requests served after the initial state
MaxSeqOps == 3

\* <<moved task, beforeTaskId, afterTaskId>> of the drops
SeqDrops == {<<"t1", "t2", "t3">>, <<"t3", "t2", "t1">>}

SeqReorderRequests ==
  {<<d[1], [targetSection |-> s, beforeTaskId |-> d[2], afterTaskId |-> d[3],
            clientToday |-> formatDateLocal(clientDate)]>> :
     d \in SeqDrops, s \in Sections}

\* Due date of the neighbor t2 in the initial state: a Thursday, which the
\* client dates place in this-week, in today and in the past
SeqNeighborDate == <<2026, 3, 12>>

InitSeq ==
  /\ clientDate \in ClientDays
  /\ kv = InitStore(<<NULL, "none">>, <<SeqNeighborDate, "none">>)
  /\ now = Now0
  /\ last = NoLast
  /\ bToday = 0 /\ bDue = NULL /\ bSection = "none" /\ bValid = {}
  /\ calls = <<>> /\ tasks = <<>>

\* The history of a request keeps, besides the request itself, the request
\* served before it.
ServeSeq(op, id, body, result) ==
  /\ now < Now0 + MaxSeqOps
  /\ kv' = result.store
  /\ now' = now + 1
  /\ last' = [op |-> op, id |-> id, status |-> result.status, pre |-> kv, body |-> body,
              prev |-> [op |-> last.op, id |-> last.id, status |-> last.status,
                        body |-> last.body]]
  /\ UNCHANGED <<clientDate, bToday, bDue, bSection, bValid, calls, tasks>>

SeqCreate ==
  /\ SpareId \notin DOMAIN kv
  /\ \E body \in CreateBodies :
       ServeSeq("create", SpareId, body, create(kv, SpareId, body, now))

SeqUpdate ==
  \E s \in {"open", "done"} :
    ServeSeq("update", "t1", [NoUpdate EXCEPT !.status = s],
             update(kv, "t1", [NoUpdate EXCEPT !.status = s], now))

SeqDelete == ServeSeq("delete", "t1", <<>>, delete(kv, "t1", now))

SeqArchive == ServeSeq("archive", "t1", <<>>, archive(kv, "t1", now))

SeqSnooze ==
  ServeSeq("snooze", "t1", [clientToday |-> formatDateLocal(clientDate)],
           snooze(kv, "t1", [clientToday |-> formatDateLocal(clientDate)], now))

SeqReorder ==
  \E r \in SeqReorderRequests :
    ServeSeq("reorder", r[1], r[2], reorder(kv, r[1], r[2], now))

NextSeq == SeqCreate \/ SeqUpdate \/ SeqDelete \/ SeqArchive \/ SeqSnooze \/ SeqReorder

SpecSeq == InitSeq /\ [][NextSeq]_vars

\* The last request was a reorder that loaded both neighbors
BothLoaded ==
  /\ Served("reorder")
  /\ last.body.beforeTaskId \in DOMAIN last.pre
  /\ last.body.afterTaskId \in DOMAIN last.pre

BeforeRank == last.pre[last.body.beforeTaskId].order_rank
AfterRank == last.pre[last.body.afterTaskId].order_rank

\* r is the representable rank nearest to (a + b) / 2
NearestToMidpoint(r, a, b) == 2 * r - (a + b) \in -1 .. 1

\* C11 as stated: with both neighbors loaded and ranks a < b, the rank given
\* to the moved task is the midpoint of a and b and lies strictly between
\* them.
C11_StrictlyBetween ==
  (BothLoaded /\ BeforeRank < AfterRank)
  => /\ NearestToMidpoint(kv[last.id].order_rank, BeforeRank, AfterRank)
     /\ BeforeRank < kv[last.id].order_rank
     /\ kv[last.id].order_rank < AfterRank

\* C11 amended: with both neighbors loaded and ranks a < b, the rank given to
\* the moved task is the representable value nearest to (a + b) / 2; it lies
\* in a .. b, and strictly between a and b whenever a representable value
\* lies between them.
C11_BetweenWhenRepresentable ==
  (BothLoaded /\ BeforeRank < AfterRank)
  => /\ NearestToMidpoint(kv[last.id].order_rank, BeforeRank, AfterRank)
     /\ BeforeRank <= kv[last.id].order_rank
     /\ kv[last.id].order_rank <= AfterRank
     /\ (AfterRank - BeforeRank >= 2
           => /\ BeforeRank < kv[last.id].order_rank
              /\ kv[last.id].order_rank < AfterRank)

\* C11 witness: a task was dropped between two neighbors whose ranks earlier
\* drops had brought two representable steps apart, and got the one value
\* between them.
C11_Witness ==
  /\ BothLoaded
  /\ AfterRank - BeforeRank = 2
  /\ kv[last.id].order_rank = BeforeRank + 1

\* The neighbor ids of the last request that resolve to a stored record
BeforeLoaded == last.body.beforeTaskId \in DOMAIN last.pre
AfterLoaded == last.body.afterTaskId \in DOMAIN last.pre

\* Date.now() of the last request
LastClock == now - 1

\* C12: a reorder of a stored task with clientToday succeeds whatever neighbor
\* ids it carries, and the rank it stores depends only on which neighbors
\* load: only before -> before.order_rank + 1, only after ->
\* after.order_rank - 1, neither -> the wall-clock timestamp; an id that
\* resolves to no record counts as absent.
C12_RankByLoadedNeighbors ==
  (/\ last.op = "reorder"
   /\ last.id \in DOMAIN last.pre
   /\ Truthy(last.body.clientToday))
  => /\ last.status = 200
     /\ (BeforeLoaded /\ ~AfterLoaded) => kv[last.id].order_rank = BeforeRank + RankUnit
     /\ (~BeforeLoaded /\ AfterLoaded) => kv[last.id].order_rank = AfterRank - RankUnit
     /\ (~BeforeLoaded /\ ~AfterLoaded) => kv[last.id].order_rank = LastClock * RankUnit

\* C12 witness: a reorder carrying a before id that resolves to no record
\* and a stored after-neighbor succeeded with the rank after.order_rank - 1.
C12_Witness ==
  /\ Served("reorder")
  /\ last.body.beforeTaskId = MissingId
  /\ AfterLoaded
  /\ kv[last.id].order_rank = AfterRank - RankUnit
  /\ kv[last.id].order_rank # last.pre[last.id].order_rank

\* The neighbor id resolves to a record that is soft-deleted
IsDeleted(id) == id \in DOMAIN last.pre /\ last.pre[id].deleted_at # 0

\* The last request with the ids of soft-deleted neighbors left out
BodyWithoutDeleted ==
  [last.body EXCEPT
     !.beforeTaskId = IF IsDeleted(@) THEN NoId ELSE @,
     !.afterTaskId = IF IsDeleted(@) THEN NoId ELSE @]

\* C13: a reorder next to a soft-deleted neighbor stores what the same
\* request without that neighbor stores: the neighbor's due date is not
\* inherited and its rank is not used.
C13_DeletedNeighborIsAbsent ==
  (/\ Served("reorder")
   /\ IsDeleted(last.body.beforeTaskId) \/ IsDeleted(last.body.afterTaskId))
  => kv = reorder(last.pre, last.id, BodyWithoutDeleted, LastClock).store

\* The last two requests were the same successful reorder, served one after
\* the other (its neighbors are other records, so none changed in between)
ReorderedTwice ==
  /\ Served("reorder")
  /\ last.prev.op = "reorder"
  /\ last.prev.status = 200
  /\ last.prev.id = last.id
  /\ last.prev.body = last.body
  /\ last.id \notin {last.body.beforeTaskId, last.body.afterTaskId}

\* C14: when a reorder is repeated with the same targetSection, neighbor ids
\* and clientToday, the task's due date after the second call is its due
\* date after the first call.
C14_RepeatedReorderKeepsDate ==
  ReorderedTwice => kv[last.id].due_date = last.pre[last.id].due_date

\* C14 witness: a reorder into next-week was served twice and the date the
\* first call stored is still there.
C14_Witness ==
  /\ ReorderedTwice
  /\ last.body.targetSection = "next-week"
  /\ Truthy(kv[last.id].due_date)
  /\ kv[last.id].due_date = last.pre[last.id].due_date
  /\ kv[last.id].updated_at = last.pre[last.id].updated_at + 1

\* The scenario of C15: clientToday 2026-03-10, the before-neighbor t2 due on
\* 2026-03-09, an undated task dropped into this-week before t2
C15_Scenario ==
  /\ Served("reorder")
  /\ last.body.clientToday = <<2026, 3, 10>>
  /\ last.body.targetSection = "this-week"
  /\ last.body.beforeTaskId = "t2"
  /\ last.pre["t2"].due_date = <<2026, 3, 9>>
  /\ last.pre[last.id].due_date = NULL

\* C15 as stated: in the scenario the moved task inherits the neighbor's
\* 2026-03-09.
C15_InheritsPastDate == C15_Scenario => kv[last.id].due_date = <<2026, 3, 9>>

\* C15 amended: in the scenario the moved task gets the this-week default,
\* clientToday + 1 = 2026-03-11; the neighbor's date is not after clientToday
\* and is not inherited.
C15_PastDateNotInherited ==
  C15_Scenario
  => /\ kv[last.id].due_date = AddDays(last.body.clientToday, 1)
     /\ kv[last.id].due_date = <<2026, 3, 11>>
     /\ getDateSection(<<2026, 3, 9>>, LastToday) = "today"

\* C15 witness: the scenario was served and the task is due on 2026-03-11.
C15_Witness ==
  /\ C15_Scenario
  /\ kv[last.id].due_date = <<2026, 3, 11>>
  /\ ~kv[last.id].is_longer_term

\* The later of two day numbers
LaterDay(a, b) == IF a >= b THEN a ELSE b

\* C16: after a successful snooze the task is due on the day after the later
\* of clientToday and its previous due date (clientToday when it had none),
\* and its is_longer_term is false, whatever state the task was in.
C16_SnoozeDate ==
  Served("snooze")
  => LET current == last.pre[last.id].due_date
         base == IF current = NULL THEN LastToday ELSE parseDateString(current)
     IN  /\ parseDateString(kv[last.id].due_date) = LaterDay(LastToday, base) + 1
         /\ kv[last.id].due_date = formatDateLocal(LaterDay(LastToday, base) + 1)
         /\ kv[last.id].is_longer_term = FALSE

\* C16 witness: an overdue task flagged longer-term was snoozed; it is due
\* on the day after clientToday and the flag is false.
C16_Witness ==
  /\ Served("snooze")
  /\ last.pre[last.id].due_date = OldDate
  /\ last.pre[last.id].is_longer_term
  /\ kv[last.id].due_date = AddDays(last.body.clientToday, 1)
  /\ ~kv[last.id].is_longer_term

(***************************************************************************)
(* The reorder handler with store errors: a call of the store throws, the  *)
(* handler's catch answers 500.                                            *)
(***************************************************************************)
\* The store calls of the reorder handler, in the order it makes them
ReorderSteps ==
  <<"get task", "get before (date)", "get before (rank)", "get after", "set">>

Faults == {ReorderSteps[i] : i \in DOMAIN ReorderSteps} \cup {"none"}

\* The store after a kv.set of key id that throws
setFailed(store, id, value) == store

\* The handler makes the store call for this request
ReorderCalls(step, body) ==
  CASE step = "get task" -> TRUE
    [] step = "get before (date)" ->
         /\ body.targetSection \notin {"personal-focus", "today", "longer-term"}
         /\ body.beforeTaskId # NoId
    [] step = "get before (rank)" -> body.beforeTaskId # NoId
    [] step = "get after" -> body.afterTaskId # NoId
    [] step = "set" -> TRUE
    [] OTHER -> FALSE

\* the reorder handler writing the due date before it computes the rank
reorderWithFault_writesDateFirst(store, id, body, clock, fault) ==
  IF fault = "get task" THEN [status |-> 500, store |-> store, writes |-> <<>>]
  ELSE IF id \notin DOMAIN store THEN [status |-> 404, store |-> store, writes |-> <<>>]
  ELSE IF ~Truthy(body.clientToday) THEN [status |-> 400, store |-> store, writes |-> <<>>]
  ELSE IF fault = "get before (date)" /\ ReorderCalls(fault, body)
    THEN [status |-> 500, store |-> store, writes |-> <<>>]
  ELSE
    LET done == reorder(store, id, body, clock).store
        dated == [store EXCEPT ![id] = [@ EXCEPT !.due_date = done[id].due_date]]
    IN  IF fault \in {"get before (rank)", "get after"} /\ ReorderCalls(fault, body)
          THEN [status |-> 500, store |-> dated, writes |-> <<id>>]
        ELSE IF fault = "set"
          THEN [status |-> 500, store |-> setFailed(dated, id, done[id]), writes |-> <<id>>]
        ELSE [status |-> 200, store |-> done, writes |-> <<id, id>>]

\* POST /tasks/:id/reorder when the store call named by fault throws; writes
\* lists the keys of the kv.set calls that took effect
reorderWithFault(store, id, body, clock, fault) ==
  IF fault = "get task" THEN [status |-> 500, store |-> store, writes |-> <<>>]
  ELSE IF id \notin DOMAIN store THEN [status |-> 404, store |-> store, writes |-> <<>>]
  ELSE IF ~Truthy(body.clientToday) THEN [status |-> 400, store |-> store, writes |-> <<>>]
  ELSE IF fault \in {"get before (date)", "get before (rank)", "get after"}
          /\ ReorderCalls(fault, body)
    THEN [status |-> 500, store |-> store, writes |-> <<>>]
  ELSE IF fault = "set"
    THEN [status |-> 500,
          store |-> setFailed(store, id, reorder(store, id, body, clock).store[id]),
          writes |-> <<>>]
  ELSE [status |-> 200, store |-> reorder(store, id, body, clock).store, writes |-> <<id>>]

FaultRequests ==
  ({"t1"} \X [targetSection : {"today", "next-week", "personal-focus"},
              beforeTaskId : {NoId, "t2"}, afterTaskId : {NoId, "t3"},
              clientToday : ClientTodays])
  \cup
  ({MissingId} \X [targetSection : {"today", "next-week", "personal-focus"},
                   beforeTaskId : {NoId}, afterTaskId : {NoId},
                   clientToday : ClientTodays])

InitFault ==
  /\ clientDate \in ClientDays
  /\ kv = InitStore(<<OldDate, "none">>, <<<<2026, 3, 21>>, "none">>)
  /\ now = Now0
  /\ last = NoLast
  /\ bToday = 0 /\ bDue = NULL /\ bSection = "none" /\ bValid = {}
  /\ calls = <<>> /\ tasks = <<>>

\* The history keeps the store call that threw and the writes of the request
ReorderFault ==
  \E r \in FaultRequests, f \in Faults :
    LET result == reorderWithFault(kv, r[1], r[2], now, f)
    IN  /\ now < Now0 + MaxOps
        /\ kv' = result.store
        /\ now' = now + 1
        /\ last' = [op |-> "reorder", id |-> r[1], status |-> result.status, pre |-> kv,
                    body |-> r[2], fault |-> f, writes |-> result.writes]
        /\ UNCHANGED <<clientDate, bToday, bDue, bSection, bValid, calls, tasks>>

NextFault == ReorderFault

SpecFault == InitFault /\ [][NextFault]_vars

\* C17: a reorder makes at most one store write, to the record of the moved
\* task, and only when it succeeds: a successful reorder changes no other
\* record, and a reorder that fails (task not found, clientToday missing, or
\* any store call throwing, the write included) leaves the store as it was.
C17_SingleWriteOrNone ==
  (last.op = "reorder")
  => /\ Len(last.writes) <= 1
     /\ \A i \in DOMAIN last.writes : last.writes[i] = last.id
     /\ DOMAIN kv = DOMAIN last.pre
     /\ \A k \in DOMAIN kv : k # last.id => kv[k] = last.pre[k]
     /\ last.status # 200 => (kv = last.pre /\ last.writes = <<>>)
     /\ last.status = 200 => last.writes = <<last.id>>

\* C17 witness: the date of the neighbor was read for inheritance, the later
\* read of the neighbor for the rank threw, and the store is as it was.
C17_Witness ==
  /\ last.op = "reorder"
  /\ last.status = 500
  /\ last.fault = "get before (rank)"
  /\ last.body.targetSection = "next-week"
  /\ last.body.beforeTaskId = "t2"
  /\ validateDateInSection(last.pre["t2"].due_date, "next-week", LastToday)
  /\ kv = last.pre

\* C18: a task whose deleted_at is set is in the result of neither read of
\* the client, the task list (fetchTasks) and the archived tasks
\* (fetchArchivedTasks).
C18_DeletedNeverRead ==
  \A id \in DOMAIN kv :
    kv[id].deleted_at # 0
    => /\ id \notin fetchTasks(kv)
       /\ id \notin fetchArchivedTasks(kv)

\* C19: no request removes a task record: every id stored before a request
\* is stored after it, the tasks of the initial store are still stored after
\* any sequence of requests, and after a delete the record is there with
\* deleted_at set.
C19_NoRecordRemoved ==
  /\ TaskIds \subseteq DOMAIN kv
  /\ last.op # "none" => DOMAIN last.pre \subseteq DOMAIN kv
  /\ Served("delete") => (last.id \in DOMAIN kv /\ kv[last.id].deleted_at # 0)

\* C19 witness: a task that was not deleted has been deleted; its record is
\* stored with deleted_at set to the time of the request.
C19_Witness ==
  /\ Served("delete")
  /\ last.pre[last.id].deleted_at = 0
  /\ last.id \in DOMAIN kv
  /\ kv[last.id].deleted_at = LastClock

\* C20: after an update that changed the status of a task, completed_at is
\* set exactly when the status is done: the update from open to done stamps
\* it with the time of the request, the update from done to open clears it.
C20_CompletedAtFollowsStatus ==
  (/\ Served("update")
   /\ kv[last.id].status # last.pre[last.id].status)
  => /\ kv[last.id].completed_at # 0 <=> kv[last.id].status = "done"
     /\ kv[last.id].status = "done" => kv[last.id].completed_at = LastClock
     /\ kv[last.id].status = "open" => kv[last.id].completed_at = 0

\* C20 witness: a task completed by an earlier update was reopened and its
\* completed_at is null again.
C20_Witness ==
  /\ Served("update")
  /\ last.pre[last.id].status = "done"
  /\ last.pre[last.id].completed_at # 0
  /\ kv[last.id].status = "open"
  /\ kv[last.id].completed_at = 0

\* C27: after a successful reorder into today, this-week, next-week,
\* after-next-week or longer-term, date bucketing of the task's new due date
\* against the request's clientToday gives the target section.
C27_ReorderLandsInTarget ==
  (/\ Served("reorder")
   /\ last.body.targetSection \in DateSections)
  => getDateSection(kv[last.id].due_date, LastToday) = last.body.targetSection

\* C28: after a successful snooze the task's due date is strictly later than
\* clientToday and strictly later than the due date it had before (if it had
\* one), and date bucketing against that clientToday does not give today; so
\* each further snooze moves the due date strictly later again.
C28_SnoozeMovesLater ==
  Served("snooze")
  => /\ parseDateString(kv[last.id].due_date) > LastToday
     /\ Truthy(last.pre[last.id].due_date)
          => parseDateString(kv[last.id].due_date)
               > parseDateString(last.pre[last.id].due_date)
     /\ getDateSection(kv[last.id].due_date, LastToday) # "today"

\* C28 witness: a task due after clientToday was snoozed to the day after
\* its due date.
C28_Witness ==
  /\ Served("snooze")
  /\ Truthy(last.pre[last.id].due_date)
  /\ parseDateString(last.pre[last.id].due_date) > LastToday
  /\ parseDateString(kv[last.id].due_date)
       = parseDateString(last.pre[last.id].due_date) + 1

\* C29: a reorder of a task (not soft-deleted) whose target section is
\* to-read (or any value the handler has no case for) leaves the task's
\* due_date and is_longer_term as they were.
C29_OtherTargetKeepsDate ==
  (/\ Served("reorder")
   /\ last.pre[last.id].deleted_at = 0
   /\ last.body.targetSection \notin DateSections \cup {"personal-focus"})
  => /\ kv[last.id].due_date = last.pre[last.id].due_date
     /\ kv[last.id].is_longer_term = last.pre[last.id].is_longer_term

\* Readings of the server's clock other than the one the last request saw
OtherClocks == {0, LastClock + 1, LastClock + 400}

\* C26: the due_date and is_longer_term a reorder or snooze stores are those
\* the same request on the same store stores under any other reading of the
\* server's clock.
C26_ClockIndependent ==
  /\ Served("reorder")
       => \A c \in OtherClocks :
            LET other == reorder(last.pre, last.id, last.body, c).store[last.id]
            IN  /\ other.due_date = kv[last.id].due_date
                /\ other.is_longer_term = kv[last.id].is_longer_term
  /\ Served("snooze")
       => \A c \in OtherClocks :
            LET other == snooze(last.pre, last.id, last.body, c).store[last.id]
            IN  /\ other.due_date = kv[last.id].due_date
                /\ other.is_longer_term = kv[last.id].is_longer_term

\* C26 witness: a snooze served at a later reading of the server's clock
\* than an earlier snooze counted from clientToday and the stored date.
C26_Witness ==
  /\ Served("snooze")
  /\ last.prev.op = "snooze"
  /\ LastClock > Now0
  /\ kv[last.id].due_date = AddDays(last.body.clientToday, 2)
  /\ kv[last.id].updated_at = LastClock

(***************************************************************************)
(* The retry helpers: retryWithBackoff of the server and retryFetch of the *)
(* client.  A call is given the outcomes of its successive attempts: ok, a *)
(* transient error (one the helper's isRetryable test accepts) or a fatal  *)
(* error (any other).                                                      *)
(***************************************************************************)
AttemptOutcomes == {"ok", "transient", "fatal"}

\* Default of the parameter maxRetries of both helpers
maxRetries == 3

\* Length of the sequences of attempt outcomes that are drawn
MaxOutcomes == 4

RECURSIVE retryLoop(_, _)

\* the loop of the helpers retrying after every error
retryLoop_retriesFatal(outcomes, attempt) ==
  IF attempt >= maxRetries
    THEN [result |-> "throw", error |-> outcomes[maxRetries], attempts |-> attempt]
  ELSE IF outcomes[attempt + 1] = "ok"
    THEN [result |-> "ok", error |-> "none", attempts |-> attempt + 1]
  ELSE IF attempt = maxRetries - 1
    THEN [result |-> "throw", error |-> outcomes[attempt + 1], attempts |-> attempt + 1]
  ELSE retryLoop(outcomes, attempt + 1)

\* for (let attempt = 0; attempt < maxRetries; attempt++) { try .. catch .. }
\* followed by throw lastError; attempts counts the calls of fn made
retryLoop(outcomes, attempt) ==
  IF attempt >= maxRetries
    THEN [result |-> "throw", error |-> outcomes[maxRetries], attempts |-> attempt]
  ELSE IF outcomes[attempt + 1] = "ok"
    THEN [result |-> "ok", error |-> "none", attempts |-> attempt + 1]
  ELSE IF outcomes[attempt + 1] # "transient" \/ attempt = maxRetries - 1
    THEN [result |-> "throw", error |-> outcomes[attempt + 1], attempts |-> attempt + 1]
  ELSE retryLoop(outcomes, attempt + 1)

retryWithBackoff(outcomes) == retryLoop(outcomes, 0)

retryFetch(outcomes) == retryLoop(outcomes, 0)

InitRetry ==
  /\ kv = <<>>
  /\ now = 0
  /\ clientDate = 0
  /\ last = NoLast
  /\ bToday = 0 /\ bDue = NULL /\ bSection = "none" /\ bValid = {}
  /\ calls = <<>> /\ tasks = <<>>

\* A store call wrapped in retryWithBackoff
RetryWithBackoff ==
  \E outcomes \in [1 .. MaxOutcomes -> AttemptOutcomes] :
    /\ last' = [op |-> "retryWithBackoff", outcomes |-> outcomes,
                call |-> retryWithBackoff(outcomes)]
    /\ UNCHANGED <<kv, now, clientDate, bToday, bDue, bSection, bValid, calls, tasks>>

\* A fetch wrapped in retryFetch
RetryFetch ==
  \E outcomes \in [1 .. MaxOutcomes -> AttemptOutcomes] :
    /\ last' = [op |-> "retryFetch", outcomes |-> outcomes,
                call |-> retryFetch(outcomes)]
    /\ UNCHANGED <<kv, now, clientDate, bToday, bDue, bSection, bValid, calls, tasks>>

NextRetry == RetryWithBackoff \/ RetryFetch

SpecRetry == InitRetry /\ [][NextRetry]_vars

\* The attempts before attempt n all failed with a transient error
AllTransientBefore(outcomes, n) == \A i \in 1 .. n - 1 : outcomes[i] = "transient"

\* C23: a call through a retry helper makes between 1 and 3 attempts; each
\* attempt but the first follows a transient failure; the call returns at
\* the first attempt that succeeds, throws at once on a failure that is not
\* transient, and throws the error of the third attempt when that fails.
C23_BoundedRetry ==
  last.op \in {"retryWithBackoff", "retryFetch"}
  => LET n == last.call.attempts
         o == last.outcomes
     IN  /\ n \in 1 .. maxRetries
         /\ AllTransientBefore(o, n)
         /\ last.call.result = "ok" <=> o[n] = "ok"
         /\ last.call.result = "throw"
              => /\ last.call.error = o[n]
                 /\ o[n] = "fatal" \/ n = maxRetries

\* C23 witness: three attempts failed with a transient error and the third
\* error was thrown although a fourth attempt would have succeeded.
C23_Witness ==
  /\ last.op = "retryWithBackoff"
  /\ \A i \in 1 .. maxRetries : last.outcomes[i] = "transient"
  /\ last.outcomes[MaxOutcomes] = "ok"
  /\ last.call.result = "throw"
  /\ last.call.attempts = maxRetries

(***************************************************************************)
(* The task handlers with transient store failures: a store call is        *)
(* attempted once, or up to maxRetries times where the handler wraps it in  *)
(* retryWithBackoff; a call that throws reaches the handler's catch, which  *)
(* answers 500.                                                            *)
(***************************************************************************)
HandlerOps == {"create", "update", "delete", "archive", "snooze", "reorder"}

\* The store calls of each handler, in the order it makes them
HandlerSteps(op) ==
  CASE op = "create" -> <<"set">>
    [] op = "reorder" -> ReorderSteps
    [] OTHER -> <<"get task", "set">>

\* The handler passes this store call to retryWithBackoff
Retried(op, step) ==
  \/ op # "create" /\ step = "get task"
  \/ op = "reorder" /\ step = "get before (date)"

\* Attempt outcomes of a store call that fails k times in a row, then succeeds
TransientRun(k) == [i \in 1 .. MaxOutcomes |-> IF i <= k THEN "transient" ELSE "ok"]

TransientRuns == {TransientRun(k) : k \in {0, 1, maxRetries}}

\* The store call returns instead of throwing
storeCallReturns(op, step, outcomes) ==
  IF Retried(op, step) THEN retryWithBackoff(outcomes).result = "ok"
  ELSE outcomes[1] = "ok"

handle(op, store, id, body, clock) ==
  CASE op = "create" -> create(store, id, body, clock)
    [] op = "update" -> update(store, id, body, clock)
    [] op = "delete" -> delete(store, id, clock)
    [] op = "archive" -> archive(store, id, clock)
    [] op = "snooze" -> snooze(store, id, body, clock)
    [] op = "reorder" -> reorder(store, id, body, clock)

\* A request whose store call named by step has these attempt outcomes
handleWithOutcomes(op, store, id, body, clock, step, outcomes) ==
  LET returns == storeCallReturns(op, step, outcomes)
      plain == handle(op, store, id, body, clock)
  IN  IF op = "reorder"
        THEN LET r == reorderWithFault(store, id, body, clock,
                                       IF returns THEN "none" ELSE step)
             IN  [status |-> r.status, store |-> r.store]
      ELSE IF returns THEN plain
      ELSE IF step = "get task" THEN [status |-> 500, store |-> store]
      ELSE IF plain.status # 200 THEN plain
      ELSE [status |-> 500, store |-> setFailed(store, id, plain.store[id])]

TransientRequests ==
  {<<"create", SpareId, b>> : b \in CreateBodies}
  \cup {<<"update", "t1", [NoUpdate EXCEPT !.status = "done"]>>}
  \cup {<<op, id, <<>>>> : op \in {"delete", "archive"}, id \in {"t1", MissingId}}
  \cup {<<"snooze", "t1", [clientToday |-> ct]>> : ct \in ClientTodays}
  \cup {<<"reorder", r[1], r[2]>> : r \in FaultRequests}

InitTransient ==
  /\ clientDate \in ClientDays
  /\ kv = InitStore(<<OldDate, "none">>, <<<<2026, 3, 21>>, "none">>)
  /\ now = Now0
  /\ last = NoLast
  /\ bToday = 0 /\ bDue = NULL /\ bSection = "none" /\ bValid = {}
  /\ calls = <<>> /\ tasks = <<>>

\* The history keeps the store call that failed and its attempt outcomes
ServeTransient ==
  \E r \in TransientRequests, outcomes \in TransientRuns :
    \E i \in DOMAIN HandlerSteps(r[1]) :
      LET step == HandlerSteps(r[1])[i]
          result == handleWithOutcomes(r[1], kv, r[2], r[3], now, step, outcomes)
      IN  /\ now < Now0 + MaxOps
          /\ kv' = result.store
          /\ now' = now + 1
          /\ last' = [op |-> r[1], id |-> r[2], status |-> result.status, pre |-> kv,
                      body |-> r[3], step |-> step, outcomes |-> outcomes]
          /\ UNCHANGED <<clientDate, bToday, bDue, bSection, bValid, calls, tasks>>

NextTransient == ServeTransient

SpecTransient == InitTransient /\ [][NextTransient]_vars

\* C24: every store call of the task handlers is retried on a transient
\* failure: a request one of whose store calls fails once, transiently, is
\* answered and stored as the same request without the failure.
C24_SingleTransientSurvives ==
  (last.op \in HandlerOps /\ last.outcomes = TransientRun(1))
  => LET plain == handle(last.op, last.pre, last.id, last.body, LastClock)
     IN  last.status = plain.status /\ kv = plain.store

(***************************************************************************)
(* The client's section population (TasksTab): the loaded tasks, filtered, *)
(* split by task_type and group, bucketed by date and sorted.              *)
(***************************************************************************)
\* Order of the tasks in the response of GET /tasks
TaskOrder == <<"t1", "t2", "t3", "t4", "t5">>

\* useTaskData.loadData: the tasks state after a load
loadData(store) ==
  SelectSeq(TaskOrder, LAMBDA id : id \in fetchTasks(store) /\ store[id].archived_at = 0)

\* The filter controls of the tab
FilterGroups == {"all", "personal", "work"}
FilterStatuses == {"all", "done"}

\* Lexicographic order of two date strings
dateCompare(a, b) ==
  IF a = b THEN 0
  ELSE IF \/ a[1] < b[1]
          \/ a[1] = b[1] /\ a[2] < b[2]
          \/ a[1] = b[1] /\ a[2] = b[2] /\ a[3] < b[3] THEN 0 - 1
  ELSE 1

\* The comparators of the two sorts
compareTasks(store, kind, a, b) ==
  LET byRank == store[a].order_rank - store[b].order_rank
  IN  IF kind = "order_rank" THEN byRank
      ELSE IF ~Truthy(store[a].due_date) /\ ~Truthy(store[b].due_date) THEN byRank
      ELSE IF ~Truthy(store[a].due_date) THEN 1
      ELSE IF ~Truthy(store[b].due_date) THEN 0 - 1
      ELSE IF dateCompare(store[a].due_date, store[b].due_date) # 0
        THEN dateCompare(store[a].due_date, store[b].due_date)
      ELSE byRank

RECURSIVE insertSorted(_, _, _, _)
insertSorted(s, x, store, kind) ==
  IF s = <<>> THEN <<x>>
  ELSE IF compareTasks(store, kind, x, Head(s)) < 0 THEN <<x>> \o s
  ELSE <<Head(s)>> \o insertSorted(Tail(s), x, store, kind)

\* Array.prototype.sort (stable) with the comparator kind
RECURSIVE sortTasks(_, _, _)
sortTasks(s, store, kind) ==
  IF s = <<>> THEN <<>>
  ELSE insertSorted(sortTasks(SubSeq(s, 1, Len(s) - 1), store, kind), s[Len(s)], store, kind)

\* section population that buckets every regular task by date
populate_bucketsPersonal(list, store, today, filterGroup, filterStatus) ==
  LET allFilteredTasks ==
        SelectSeq(list, LAMBDA id :
          /\ filterGroup = "all" \/ store[id].group = filterGroup
          /\ filterStatus = "all" \/ store[id].status = filterStatus)
      filteredTasks ==
        SelectSeq(allFilteredTasks, LAMBDA id : store[id].task_type \in {"", "regular"})
      personalTasks == SelectSeq(filteredTasks, LAMBDA id : store[id].group = "personal")
      workTasks == filteredTasks
  IN  [ workFocusTasks |->
          SelectSeq(allFilteredTasks, LAMBDA id : store[id].task_type = "work-focus"),
        toReadTasks |->
          SelectSeq(allFilteredTasks, LAMBDA id : store[id].task_type = "to-read"),
        tasksBySection |->
          [section \in Sections |->
             IF section = "personal-focus" THEN sortTasks(personalTasks, store, "due_date")
             ELSE sortTasks(
                    SelectSeq(workTasks, LAMBDA id :
                      getDateSection(store[id].due_date, today) = section),
                    store, "order_rank")] ]

\* TasksTab: workFocusTasks, toReadTasks and tasksBySection of a render
populate(list, store, today, filterGroup, filterStatus) ==
  LET allFilteredTasks ==
        SelectSeq(list, LAMBDA id :
          /\ filterGroup = "all" \/ store[id].group = filterGroup
          /\ filterStatus = "all" \/ store[id].status = filterStatus)
      filteredTasks ==
        SelectSeq(allFilteredTasks, LAMBDA id : store[id].task_type \in {"", "regular"})
      personalTasks == SelectSeq(filteredTasks, LAMBDA id : store[id].group = "personal")
      workTasks == SelectSeq(filteredTasks, LAMBDA id : store[id].group = "work")
  IN  [ workFocusTasks |->
          SelectSeq(allFilteredTasks, LAMBDA id : store[id].task_type = "work-focus"),
        toReadTasks |->
          SelectSeq(allFilteredTasks, LAMBDA id : store[id].task_type = "to-read"),
        tasksBySection |->
          [section \in Sections |->
             IF section = "personal-focus" THEN sortTasks(personalTasks, store, "due_date")
             ELSE sortTasks(
                    SelectSeq(workTasks, LAMBDA id :
                      getDateSection(store[id].due_date, today) = section),
                    store, "order_rank")] ]

PopulateT1Bodies ==
  [due_date : {NULL, OldDate, <<2026, 3, 12>>}, group : {"", "work"},
   task_type : {"", "work-focus", "to-read"}]

PopulateT2Bodies ==
  [due_date : {<<2026, 3, 9>>}, group : {"personal", "work"}, task_type : {"regular"}]

InitPopulate ==
  /\ clientDate \in ClientDays
  /\ \E b1 \in PopulateT1Bodies, b2 \in PopulateT2Bodies :
       kv = create(create(create(<<>>, "t1", b1, 1).store, "t2", b2, 2).store, "t3",
                   [due_date |-> NULL, group |-> "work", task_type |-> ""], 3).store
  /\ now = Now0
  /\ last = NoLast
  /\ bToday = 0 /\ bDue = NULL /\ bSection = "none" /\ bValid = {}
  /\ calls = <<>> /\ tasks = <<>>

\* A render of the tab after a load, under the filters set
Populate ==
  \E filterGroup \in FilterGroups, filterStatus \in FilterStatuses :
    /\ last' = [op |-> "populate", tasks |-> loadData(kv),
                filterGroup |-> filterGroup, filterStatus |-> filterStatus,
                out |-> populate(loadData(kv), kv, clientDate, filterGroup, filterStatus)]
    /\ UNCHANGED <<kv, now, clientDate, bToday, bDue, bSection, bValid, calls, tasks>>

NextPopulate == Populate

SpecPopulate == InitPopulate /\ [][NextPopulate]_vars

\* The lists the tab renders: the two special sections and the sections of
\* tasksBySection that are shown
Groupings == {"work-focus", "to-read", "personal-focus"} \cup DateSections

Range(s) == {s[i] : i \in DOMAIN s}

Grouping(out, name) ==
  IF name = "work-focus" THEN Range(out.workFocusTasks)
  ELSE IF name = "to-read" THEN Range(out.toReadTasks)
  ELSE Range(out.tasksBySection[name])

\* The tasks of the loaded collection that the filters let through
Shown ==
  {id \in Range(last.tasks) :
     /\ last.filterGroup = "all" \/ kv[id].group = last.filterGroup
     /\ last.filterStatus = "all" \/ kv[id].status = last.filterStatus}

\* The grouping the rule of the population gives a task
ExpectedGrouping(id) ==
  IF kv[id].task_type \in {"work-focus", "to-read"} THEN kv[id].task_type
  ELSE IF kv[id].group = "personal" THEN "personal-focus"
  ELSE getDateSection(kv[id].due_date, clientDate)

\* C25 as stated: section population places every task of the loaded
\* collection in exactly one of the seven groupings, the sections named by
\* the seven section identifiers.
C25_ExactlyOneOfSeven ==
  (last.op = "populate")
  => \A id \in Range(last.tasks) :
       Cardinality({s \in Sections : id \in Grouping(last.out, s)}) = 1

\* C25 amended: section population places every task of the loaded collection
\* that passes the filters in exactly one of eight groupings: work-focus and
\* to-read tasks in their own section whatever their due date and group,
\* regular personal tasks in personal-focus, regular work tasks, and only
\* they, in the date section of date bucketing; a task the filters exclude is
\* in no grouping, and the to-read entry of tasksBySection stays empty.
C25_ExactlyOneGrouping ==
  (last.op = "populate")
  => /\ Cardinality(Groupings) = 8
     /\ \A id \in Range(last.tasks), g \in Groupings :
          id \in Grouping(last.out, g) <=> (id \in Shown /\ g = ExpectedGrouping(id))
     /\ last.out.tasksBySection["to-read"] = <<>>

\* C25 witness: without filters, a work-focus task of group work with a due
\* date is in the work-focus list, a regular personal task is in
\* personal-focus and a regular work task is in its date section.
C25_Witness ==
  /\ last.op = "populate"
  /\ last.filterGroup = "all" /\ last.filterStatus = "all"
  /\ kv["t1"].task_type = "work-focus" /\ kv["t1"].group = "work"
  /\ kv["t1"].due_date = <<2026, 3, 12>>
  /\ last.out.workFocusTasks = <<"t1">>
  /\ kv["t2"].group = "personal"
  /\ last.out.tasksBySection["personal-focus"] = <<"t2">>
  /\ last.out.tasksBySection["longer-term"] = <<"t3">>

(***************************************************************************)
(* Concurrent requests.  A handler runs up to its next await and then      *)
(* another handler may run: the read of the task, the reads of the         *)
(* neighbors (reorder) and the write are separate steps, and a handler     *)
(* computes the document it writes from what its own reads returned.       *)
(***************************************************************************)
Procs == {"p1", "p2"}

Idle == [pc |-> "idle"]

RaceNeighbors ==
  [targetSection |-> "next-week", beforeTaskId |-> "t2", afterTaskId |-> "t3",
   clientToday |-> formatDateLocal(clientDate)]

RaceRequests ==
  { <<"update", "t1", [NoUpdate EXCEPT !.status = "done"]>>,
    <<"update", "t1", [NoUpdate EXCEPT !.due_date = <<2026, 3, 12>>]>>,
    <<"update", "t2", [NoUpdate EXCEPT !.status = "done"]>>,
    <<"update", MissingId, [NoUpdate EXCEPT !.status = "done"]>>,
    <<"snooze", "t1", [clientToday |-> formatDateLocal(clientDate)]>>,
    <<"reorder", "t1", RaceNeighbors>>,
    <<"reorder", SpareId, RaceNeighbors>> }

\* kv.set that refuses a record changed since the handler read it
raceWrite_checksVersion(store, seen, id, doc) ==
  IF store[id] # seen[id] THEN [status |-> 409, store |-> store]
  ELSE [status |-> 200, store |-> [store EXCEPT ![id] = doc]]

\* kv.set that moves the rank away from a rank already stored
raceWrite_avoidsCollision(store, seen, id, doc) ==
  IF \E k \in DOMAIN store \ {id} : store[k].order_rank = doc.order_rank
    THEN [status |-> 200,
          store |-> [store EXCEPT ![id] = [doc EXCEPT !.order_rank = @ + 1]]]
  ELSE [status |-> 200, store |-> [store EXCEPT ![id] = doc]]

\* await kv.set(`task:${id}`, doc); return c.json(doc)
raceWrite(store, seen, id, doc) ==
  [status |-> 200, store |-> [store EXCEPT ![id] = doc]]

InitRace ==
  /\ clientDate \in ClientDays
  /\ kv = create(InitStore(<<OldDate, "none">>, <<<<2026, 3, 21>>, "none">>), SpareId,
                 [due_date |-> NULL, group |-> "work", task_type |-> ""], Now0).store
  /\ now = Now0 + 1
  /\ last = NoLast
  /\ bToday = 0 /\ bDue = NULL /\ bSection = "none" /\ bValid = {}
  /\ calls = [p \in Procs |-> Idle] /\ tasks = <<>>

\* The handler reads the task; it answers at once when the task is missing
\* or the request is invalid
RaceGetTask(p) ==
  \E r \in RaceRequests :
    LET status == handle(r[1], kv, r[2], r[3], now).status
        call == [op |-> r[1], id |-> r[2], body |-> r[3], seen |-> kv]
    IN  /\ calls[p].pc = "idle"
        /\ calls' = [calls EXCEPT ![p] =
                       IF status # 200
                         THEN call @@ [pc |-> "done", status |-> status, doc |-> <<>>,
                                       wroteAt |-> 0, pcs |-> <<>>]
                         ELSE call @@ [pc |-> "got task"]]
        /\ UNCHANGED <<kv, now, clientDate, last, bToday, bDue, bSection, bValid, tasks>>

\* The reorder handler reads its neighbors, later than it read the task
RaceGetNeighbors(p) ==
  /\ calls[p].pc = "got task"
  /\ calls[p].op = "reorder"
  /\ calls' = [calls EXCEPT ![p].pc = "got neighbors",
                            ![p].seen = [k \in DOMAIN kv |->
                                           IF k = calls[p].id THEN calls[p].seen[k]
                                           ELSE kv[k]]]
  /\ UNCHANGED <<kv, now, clientDate, last, bToday, bDue, bSection, bValid, tasks>>

\* The handler writes the document it computed from its reads and answers;
\* the history keeps how far the other handlers were at that moment
RaceSet(p) ==
  LET c == calls[p]
      doc == handle(c.op, c.seen, c.id, c.body, now).store[c.id]
      result == raceWrite(kv, c.seen, c.id, doc)
  IN  /\ c.pc \in {"got task", "got neighbors"}
      /\ c.op = "reorder" => c.pc = "got neighbors"
      /\ kv' = result.store
      /\ now' = now + 1
      /\ calls' = [calls EXCEPT ![p] =
                     [op |-> c.op, id |-> c.id, body |-> c.body, seen |-> c.seen,
                      pc |-> "done", status |-> result.status, doc |-> doc,
                      wroteAt |-> now, pcs |-> [q \in Procs |-> calls[q].pc]]]
      /\ last' = [op |-> c.op, id |-> c.id, status |-> result.status, pre |-> kv,
                  body |-> c.body]
      /\ UNCHANGED <<clientDate, bToday, bDue, bSection, bValid, tasks>>

NextRace == \E p \in Procs : RaceGetTask(p) \/ RaceGetNeighbors(p) \/ RaceSet(p)

SpecRace == InitRace /\ [][NextRace]_vars

\* The handler of p has written
Wrote(p) == calls[p].pc = "done" /\ calls[p].wroteAt # 0

\* p wrote first, and q had read its task by then and wrote later
ReadBeforeEitherWrote(p, q) ==
  /\ p # q /\ Wrote(p) /\ Wrote(q)
  /\ calls[p].wroteAt < calls[q].wroteAt
  /\ calls[p].pcs[q] # "idle"

\* C21: of two operations on the same task id that both read the record
\* before either writes, the later write wins: the stored record is exactly
\* the document the later writer computed from its own read, and both are
\* answered as their own read decides, none rejected as stale; two operations
\* on different task ids each leave their document stored.
C21_LastWriteWins ==
  /\ \A p \in Procs :
       calls[p].pc = "done"
       => calls[p].status =
            handle(calls[p].op, calls[p].seen, calls[p].id, calls[p].body, now).status
  /\ \A p, q \in Procs :
       ReadBeforeEitherWrote(p, q)
       => /\ calls[p].status = 200 /\ calls[q].status = 200
          /\ calls[p].id = calls[q].id
               => /\ kv[calls[q].id] = calls[q].doc
                  /\ calls[q].doc =
                       handle(calls[q].op, calls[q].seen, calls[q].id, calls[q].body,
                              calls[q].wroteAt).store[calls[q].id]
                  /\ calls[q].seen[calls[q].id] = calls[p].seen[calls[p].id]
  /\ \A p, q \in Procs :
       (Wrote(p) /\ Wrote(q) /\ calls[p].id # calls[q].id)
       => kv[calls[p].id] = calls[p].doc /\ kv[calls[q].id] = calls[q].doc

\* C21 witness: an update of the status and an update of the due date of t1
\* both read t1, then both wrote: the stored record has the new due date and
\* the old status.
C21_Witness ==
  \E p, q \in Procs :
    /\ ReadBeforeEitherWrote(p, q)
    /\ calls[p].id = "t1" /\ calls[q].id = "t1"
    /\ calls[p].op = "update" /\ calls[p].body.status = "done"
    /\ calls[q].op = "update" /\ calls[q].body.due_date = <<2026, 3, 12>>
    /\ kv["t1"].due_date = <<2026, 3, 12>>
    /\ kv["t1"].status = "open"

\* Two reorders of different tasks between the same neighbors; p wrote first,
\* when q had read the neighbors
RacingReorders(p, q) ==
  /\ p # q /\ Wrote(p) /\ Wrote(q)
  /\ calls[p].op = "reorder" /\ calls[q].op = "reorder"
  /\ calls[p].id # calls[q].id
  /\ calls[p].body = calls[q].body
  /\ calls[p].wroteAt < calls[q].wroteAt
  /\ calls[p].pcs[q] = "got neighbors"

\* C22: two concurrent reorders of different tasks between the same
\* neighbors, each reading the neighbors' ranks before the other writes, both
\* succeed and leave the two tasks with equal order_rank and equal due_date
\* (the same section); each stored record is the document its handler wrote,
\* nothing is corrected or rolled back.
C22_RankCollision ==
  \A p, q \in Procs :
    RacingReorders(p, q)
    => /\ calls[p].status = 200 /\ calls[q].status = 200
       /\ kv[calls[p].id].order_rank = kv[calls[q].id].order_rank
       /\ kv[calls[p].id].due_date = kv[calls[q].id].due_date
       /\ kv[calls[p].id] = calls[p].doc
       /\ kv[calls[q].id] = calls[q].doc

\* C22 witness: t1 and the fourth task were both dropped between t2 and t3
\* and both have the rank midway between the two.
C22_Witness ==
  \E p, q \in Procs :
    /\ RacingReorders(p, q)
    /\ kv["t1"].order_rank = midpoint(kv["t2"].order_rank, kv["t3"].order_rank)
    /\ kv[SpareId].order_rank = kv["t1"].order_rank

(***************************************************************************)
(* The client's task list (useTaskData).  A handler is created by a render *)
(* and closes over the tasks of that render; it awaits the response of the *)
(* server and then calls setTasks with a list built from those tasks.  The *)
(* poll calls setTasks with the list it fetched.                           *)
(***************************************************************************)
UiHandlers == {"h1", "h2"}

Poll == "poll"

\* The list entries of the tasks of a response
entries(store, ids) == [i \in DOMAIN ids |-> [id |-> ids[i], task |-> store[ids[i]]]]

\* crypto.randomUUID() of the create that serves the quick-add of handler h
NewId(h) == IF h = "h1" THEN "t4" ELSE "t5"

UiToday == [clientToday |-> formatDateLocal(clientDate)]

\* handleToggleStatus, handleSnooze, handleDeleteTask, handleArchiveTask,
\* handleQuickAdd and handleDrop, with the request each sends
UiRequests(h) ==
  { <<"update", "t1", [NoUpdate EXCEPT !.status = "done"]>>,
    <<"snooze", "t2", UiToday>>,
    <<"delete", "t3", <<>>>>,
    <<"archive", "t2", <<>>>>,
    <<"create", NewId(h), [due_date |-> NULL, group |-> "work", task_type |-> ""]>>,
    <<"reorder", "t1", [targetSection |-> "next-week", beforeTaskId |-> "t2",
                        afterTaskId |-> NoId, clientToday |-> UiToday.clientToday]>> }

\* A request or a fetch is awaiting its response
InFlight(c) == calls[c].pc \in {"sent", "responded", "fetched"}

InitUi ==
  /\ clientDate = FirstClientDay
  /\ kv = InitStore(<<OldDate, "none">>, <<<<2026, 3, 21>>, "none">>)
  /\ now = Now0
  /\ last = NoLast
  /\ bToday = 0 /\ bDue = NULL /\ bSection = "none" /\ bValid = {}
  /\ calls = [c \in UiHandlers \cup {Poll} |-> Idle]
  /\ tasks = entries(kv, loadData(kv))

\* Every call in flight when another starts has overlapped with it
overlap(c) ==
  [d \in DOMAIN calls |->
     IF d # c /\ InFlight(d) THEN [calls[d] EXCEPT !.overlapped = TRUE] ELSE calls[d]]

\* The user triggers a handler: it sends its request
UiInvoke(h) ==
  \E r \in UiRequests(h) :
    /\ calls[h].pc = "idle"
    /\ calls' = [overlap(h) EXCEPT ![h] =
                   [pc |-> "sent", op |-> r[1], id |-> r[2], body |-> r[3],
                    snapshot |-> tasks,
                    overlapped |-> \E d \in DOMAIN calls : d # h /\ InFlight(d)]]
    /\ UNCHANGED <<kv, now, clientDate, last, bToday, bDue, bSection, bValid, tasks>>

\* The server serves the request of a handler
UiServe(h) ==
  LET c == calls[h]
      result == handle(c.op, kv, c.id, c.body, now)
  IN  /\ c.pc = "sent"
      /\ kv' = result.store
      /\ now' = now + 1
      /\ calls' = [calls EXCEPT ![h] =
                     [c EXCEPT !.pc = "responded"]
                       @@ [status |-> result.status, response |-> result.store[c.id]]]
      /\ last' = [op |-> c.op, id |-> c.id, status |-> result.status, pre |-> kv,
                  body |-> c.body]
      /\ UNCHANGED <<clientDate, bToday, bDue, bSection, bValid, tasks>>

\* The list a handler passes to setTasks
handlerTasks(c) ==
  IF c.op = "create" THEN Append(c.snapshot, [id |-> c.id, task |-> c.response])
  ELSE IF c.op = "delete" THEN SelectSeq(c.snapshot, LAMBDA t : t.id # c.id)
  ELSE [i \in DOMAIN c.snapshot |->
          IF c.snapshot[i].id = c.id THEN [id |-> c.id, task |-> c.response]
          ELSE c.snapshot[i]]

\* The response arrives: setTasks, or the toast of the catch
UiComplete(h) ==
  /\ calls[h].pc = "responded"
  /\ tasks' = IF calls[h].status = 200 THEN handlerTasks(calls[h]) ELSE tasks
  /\ calls' = [calls EXCEPT ![h].pc = "done"]
  /\ UNCHANGED <<kv, now, clientDate, last, bToday, bDue, bSection, bValid>>

\* loadData of the polling interval: the server answers GET /tasks
PollFetch ==
  /\ calls[Poll].pc = "idle"
  /\ calls' = [overlap(Poll) EXCEPT ![Poll] =
                 [pc |-> "fetched", fetched |-> entries(kv, loadData(kv)),
                  overlapped |-> \E d \in UiHandlers : InFlight(d)]]
  /\ UNCHANGED <<kv, now, clientDate, last, bToday, bDue, bSection, bValid, tasks>>

\* loadData: setTasks(nonArchivedTasks)
PollSet ==
  /\ calls[Poll].pc = "fetched"
  /\ tasks' = calls[Poll].fetched
  /\ calls' = [calls EXCEPT ![Poll].pc = "done"]
  /\ UNCHANGED <<kv, now, clientDate, last, bToday, bDue, bSection, bValid>>

NextUi == (\E h \in UiHandlers : UiInvoke(h) \/ UiServe(h) \/ UiComplete(h))
            \/ PollFetch \/ PollSet

SpecUi == InitUi /\ [][NextUi]_vars

\* Every handler has completed and no poll is awaiting its response
UiSettled ==
  /\ DOMAIN calls = UiHandlers \cup {Poll}
  /\ \A h \in UiHandlers : calls[h].pc = "done"
  /\ calls[Poll].pc \in {"idle", "done"}

\* The displayed list shows the stored task id as the responses left it
ShownAsStored(id) ==
  LET shown == {i \in DOMAIN tasks : tasks[i].id = id}
  IN  IF kv[id].deleted_at # 0 THEN shown = {}
      ELSE IF kv[id].archived_at # 0 THEN \A i \in shown : tasks[i].task = kv[id]
      ELSE Cardinality(shown) = 1 /\ \A i \in shown : tasks[i].task = kv[id]

\* C30: when two handlers were in flight at the same time, or a poll and a
\* handler, the displayed list after all have completed reflects every
\* result: each task is displayed as the server stored it (a deleted task
\* not at all), no update having been overwritten by an older snapshot.
C30_ConcurrentResultsShown ==
  (UiSettled /\ \E h \in UiHandlers : calls[h].overlapped)
  => \A id \in DOMAIN kv : ShownAsStored(id)


====
